---- MODULE Spec2Model ----
(***************************************************************************)
(* Model of image_proc (src/image_proc/src/main.rs): the capture worker    *)
(* thread (live_camera_thread), the foreground (MainData: detect_cameras,  *)
(* update, on_exit, calibrate_camera) and the two bounded crossbeam        *)
(* channels between them.                                                  *)
(*                                                                         *)
(* Atomicity: every action holds at most one operation on a channel (a     *)
(* send, a try_recv) together with the thread-local code around it.  A     *)
(* crossbeam `send` on a full bounded channel blocks: the sender then      *)
(* waits (fg_send # NoCmd with cmdq full, w_pc = "send") until the         *)
(* receiver makes room or the channel is disconnected.                     *)
(***************************************************************************)
EXTENDS Integers, Sequences, FiniteSets, TLC

\* ---------------------------------------------------------------- bounds
\* Number of camera indices at which a probe (OpenCvCamera::new) can succeed.
NumCams == 3
\* Of these, the camera indices at which one can succeed in CalibSpec.
CalibCams == 2
\* Commands a client of the worker submits in WorkerSpec (bounds the history).
MaxCmds == 4
\* Frames the accumulated list (charuco_images) holds at most in CalibSpec.
MaxImages == 2
\* Distinct results the optimizer can return (a solved matrix is 1 .. MaxResult).
MaxResult == 2
\* Rows and columns of a Mat, width and height of a frame, in MatSpec.
MaxDim == 2
\* Byte patterns a Mat is filled with in MatSpec (0 .. MaxSeed).
MaxSeed == 2
\* ProfileSpec: how far (in half steps between two control points) beyond and
\* within each end of the profile the pointer positions and sample times go.
Margin == 3

\* ------------------------------------------------------ program constants
\* crossbeam::channel::bounded(5), command channel (main.rs:254)
CmdCap == 5
\* crossbeam::channel::bounded(5), frame channel (main.rs:255)
FrameCap == 5
\* scale: vec![0.0; 32] (main.rs:259)
ScaleLen == 32
\* opencv::core::CV_64FC1 (main.rs:53) and CV_8UC3 (main.rs:86)
CV_64FC1 == 6
CV_8UC3 == 16
\* detect_cameras stops at `consecutive_fail == 5` (main.rs:287)
MaxConsecutiveFail == 5

Ids == 0 .. (NumCams - 1)

\* ------------------------------------------------------------- messages
\* enum ToCameraThread.  ValidCamera(i, c) always carries a closed handle:
\* its one call site closes c before sending it (main.rs:281-282).
ValidCamera(i) == [op |-> "ValidCamera", id |-> i]
OpenCamera(i) == [op |-> "OpenCamera", id |-> i]
CloseCamera(i) == [op |-> "CloseCamera", id |-> i]
Quit == [op |-> "Quit", id |-> -1]
\* "the foreground has no send in progress"
NoCmd == [op |-> "None", id |-> -1]

Commands ==
    {ValidCamera(i) : i \in Ids} \cup {OpenCamera(i) : i \in Ids}
        \cup {CloseCamera(i) : i \in Ids} \cup {Quit}

VARIABLES
    \* crossbeam channels: to_thread (commands), from_thread (frames; a frame
    \* is abstracted to the id it is tagged with)
    cmdq, frameq,
    \* ---- worker thread (live_camera_thread)
    w_pc,            \* "recv" | "poll" | "send" | "done"
    w_live_cameras,  \* BTreeMap<i32, OpenCvCamera>: id -> "none"|"closed"|"open"
    w_todo,          \* open devices the `for` loop of this iteration has still to read
    w_frame,         \* id of the frame the worker is blocked sending, or -1
    w_reads,         \* ghost: read attempts on each device in this iteration
    \* ---- foreground (MainData)
    fg_pc,           \* "detect" | "idle" | "drain" | "ui" | "on_exit" | "exited"
    fg_send,         \* command the foreground is in `send` with, or NoCmd
    det_i,           \* detect_cameras: index probed next
    consecutive_fail,
    live_cameras,    \* MainData.live_cameras: BTreeSet<i32>
    selected_camera, \* Option<i32>: -1 is None
    image_set,       \* MainData.image_set: ids holding a received frame
    \* ---- calibration session (MainData), advanced only by CalibSpec
    charuco_images,  \* Vec<Mat>: the accumulated frames
    cd,              \* Option<CalibrationData>
    file,            \* ./test.bin
    calib_call,      \* ghost: what the calibrate_camera call of this update did
    \* ---- ghost history, advanced only by WorkerSpec
    sent,            \* every command enqueued so far, in order
    w_log,           \* every command the worker dequeued, with open()'s result
    \* ---- foreground, the profile plot (MainData.scale), advanced by ProfileSpec
    scale,           \* Vec<f64>: the control values of the profile
    \* ---- ghost
    probes,          \* detect_cameras: the result of each probe so far, in order
    fn_in,           \* argument of a function applied on its own (MatSpec, ProfileSpec)
    fn_out           \* and what the last application returned

wvars == <<w_pc, w_live_cameras, w_todo, w_frame, w_reads>>
fvars == <<fg_pc, fg_send, det_i, consecutive_fail, live_cameras,
           selected_camera, image_set>>
cvars == <<charuco_images, cd, file, calib_call>>
hvars == <<sent, w_log>>
xvars == <<scale, probes, fn_in, fn_out>>
vars == <<cmdq, frameq, wvars, fvars, cvars, hvars, xvars>>

Min(S) == CHOOSE x \in S : \A y \in S : x <= y

\* ------------------------------------------------------------- channels
\* Receiver::try_recv on a non-empty channel takes the oldest message.
ChanHeadNewest(q) == q[Len(q)]
ChanHead(q) == Head(q)
ChanRest(q) == Tail(q)
\* Sender::send with room in the channel appends.
ChanPut(q, m) == Append(q, m)

\* The receiver of the frame channel (MainData.from_image_thread) is gone
\* once MainData is dropped: send then returns Err at once.
FrameRxDropped == fg_pc = "exited"

\* The receiver of the command channel is dropped when live_camera_thread
\* returns: a later send returns Err and enqueues nothing.
CmdRxDropped == w_pc = "done"

\* --------------------------------------------------------- OpenCvCamera
\* OpenCvCamera::open on a registered handle: an open handle is kept, a
\* closed one is opened when VideoCapture::new and open succeed (ok).
CamOpenAgain(st, ok) == IF ok THEN "open" ELSE "closed"
CamOpen(st, ok) == IF st = "open" THEN "open" ELSE IF ok THEN "open" ELSE "closed"

\* OpenCvCamera::close: self.cam = None.
CamCloseKeeps(st) == st
CamClose(st) == "closed"

\* OpenCvCamera::get_image: one VideoCapture::read on an open handle (None
\* on a closed one); the handle is kept whether or not a frame was read.
GetImageDropsHandle(st, ok) ==
    [cam |-> IF ok THEN st ELSE "closed", frame |-> st = "open" /\ ok]
GetImage(st, ok) == [cam |-> st, frame |-> st = "open" /\ ok]

\* ------------------------------------------------------ worker: commands
\* The `match a` of live_camera_thread on the device table t.
ApplyCmdInserts(t, c, ok) ==
    CASE c.op = "ValidCamera" -> [t EXCEPT ![c.id] = "closed"]
      [] c.op = "OpenCamera" -> [t EXCEPT ![c.id] = CamOpen("closed", ok)]
      [] c.op = "CloseCamera" -> [t EXCEPT ![c.id] = "closed"]
      [] OTHER -> t
ApplyCmd(t, c, ok) ==
    CASE c.op = "ValidCamera" -> [t EXCEPT ![c.id] = "closed"]
      [] c.op = "OpenCamera" ->
            IF t[c.id] # "none" THEN [t EXCEPT ![c.id] = CamOpen(t[c.id], ok)] ELSE t
      [] c.op = "CloseCamera" ->
            IF t[c.id] # "none" THEN [t EXCEPT ![c.id] = CamClose(t[c.id])] ELSE t
      [] OTHER -> t

\* The devices for which `c.is_open()` holds: those the `for` loop reads.
OpenDevices(t) == {i \in Ids : t[i] = "open"}

\* What is left of `for (i, c) in &mut live_cameras` after visiting i.
RestAfterBreak(todo, i) == {}
RestAfter(todo, i) == todo \ {i}

PcAfter(todo) == IF todo = {} THEN "recv" ELSE "poll"

ZeroReads == [i \in Ids |-> 0]

\* Top of the loop: try_recv takes at most one command and applies it, then
\* the `for` loop over the device table starts.
WRecv(ok) ==
    /\ w_pc = "recv"
    /\ IF cmdq = <<>>
       THEN /\ UNCHANGED <<cmdq, w_live_cameras>>
            /\ w_todo' = OpenDevices(w_live_cameras)
            /\ w_pc' = PcAfter(w_todo')
       ELSE /\ cmdq' = ChanRest(cmdq)
            /\ IF ChanHead(cmdq).op = "Quit"
               THEN /\ w_pc' = "done"
                    /\ w_todo' = {}
                    /\ UNCHANGED w_live_cameras
               ELSE /\ w_live_cameras' = ApplyCmd(w_live_cameras, ChanHead(cmdq), ok)
                    /\ w_todo' = OpenDevices(w_live_cameras')
                    /\ w_pc' = PcAfter(w_todo')
    /\ w_reads' = ZeroReads
    /\ UNCHANGED <<frameq, w_frame, fvars>>

\* One step of the `for` loop: the next open device in key order (a device
\* that is not open is passed over); one read, and a frame read is sent
\* (send waits on a full channel).
WPoll(ok) ==
    /\ w_pc = "poll"
    /\ LET i == Min(w_todo)
           rest == RestAfter(w_todo, i)
           r == GetImage(w_live_cameras[i], ok)
       IN /\ w_todo' = rest
          /\ w_live_cameras' = [w_live_cameras EXCEPT ![i] = r.cam]
          /\ w_reads' = [w_reads EXCEPT ![i] = @ + 1]
          /\ IF ~r.frame \/ FrameRxDropped
             THEN /\ w_pc' = PcAfter(rest)
                  /\ UNCHANGED <<frameq, w_frame>>
             ELSE IF Len(frameq) < FrameCap
             THEN /\ frameq' = ChanPut(frameq, i)
                  /\ w_pc' = PcAfter(rest)
                  /\ UNCHANGED w_frame
             ELSE /\ w_pc' = "send"
                  /\ w_frame' = i
                  /\ UNCHANGED frameq
    /\ UNCHANGED <<cmdq, fvars>>

\* The blocked snd.send returns: room was made, or the receiver is gone.
WSend ==
    /\ w_pc = "send"
    /\ \/ /\ Len(frameq) < FrameCap
          /\ ~FrameRxDropped
          /\ frameq' = ChanPut(frameq, w_frame)
       \/ /\ FrameRxDropped
          /\ UNCHANGED frameq
    /\ w_frame' = -1
    /\ w_pc' = PcAfter(w_todo)
    /\ UNCHANGED <<cmdq, w_live_cameras, w_todo, w_reads, fvars>>

\* ------------------------------------------------------------ foreground
\* Sender::send returns at once when the channel has room or its receiver
\* is gone (Err, nothing enqueued); otherwise it waits.
CmdSendReturns == Len(cmdq) < CmdCap \/ CmdRxDropped
Enqueued(c) == IF CmdRxDropped THEN cmdq ELSE ChanPut(cmdq, c)

\* A send that had to wait returns, and the code after it runs:
\*   detect_cameras: live_cameras.insert(i), next index (main.rs:283-289)
\*   update, drain loop: image_set.insert(i, bm) (main.rs:559)
\*   update, a button: the rest of update touches no state modelled here
\*   on_exit: returns (main.rs:546), and run_native and main after it: MainData
\*     is dropped, and with it the foreground's channel ends and the JoinHandle
\*     of the worker (_image_thread), which nothing ever joins
FgSend ==
    /\ fg_send # NoCmd
    /\ CmdSendReturns
    /\ cmdq' = Enqueued(fg_send)
    /\ fg_send' = NoCmd
    /\ CASE fg_pc = "detect" ->
              /\ live_cameras' = live_cameras \cup {fg_send.id}
              /\ det_i' = det_i + 1
              /\ UNCHANGED <<fg_pc, image_set>>
         [] fg_pc = "drain" ->
              /\ image_set' = image_set \cup {fg_send.id}
              /\ UNCHANGED <<fg_pc, live_cameras, det_i>>
         [] fg_pc = "ui" ->
              /\ fg_pc' = "idle"
              /\ UNCHANGED <<live_cameras, det_i, image_set>>
         [] OTHER ->
              /\ fg_pc' = "exited"
              /\ UNCHANGED <<live_cameras, det_i, image_set>>
    /\ UNCHANGED <<frameq, wvars, consecutive_fail, selected_camera>>

\* detect_cameras: consecutive_fail after a probe (main.rs:279, 285).
FailsAfterNoReset(cf, found) == IF found THEN cf ELSE cf + 1
FailsAfter(cf, found) == IF found THEN 0 ELSE cf + 1

\* detect_cameras, one index: OpenCvCamera::new(i) finds a camera or not.
\* A camera can be found only at an index below NumCams.
FgProbe(found) ==
    /\ fg_pc = "detect"
    /\ fg_send = NoCmd
    /\ found => det_i \in Ids
    /\ consecutive_fail' = FailsAfter(consecutive_fail, found)
    /\ IF found
       THEN IF CmdSendReturns
            THEN /\ cmdq' = Enqueued(ValidCamera(det_i))
                 /\ live_cameras' = live_cameras \cup {det_i}
                 /\ det_i' = det_i + 1
                 /\ UNCHANGED <<fg_pc, fg_send>>
            ELSE /\ fg_send' = ValidCamera(det_i)
                 /\ UNCHANGED <<cmdq, fg_pc, det_i, live_cameras>>
       ELSE /\ IF consecutive_fail' = MaxConsecutiveFail
               THEN fg_pc' = "idle" /\ UNCHANGED det_i
               ELSE det_i' = det_i + 1 /\ UNCHANGED fg_pc
            /\ UNCHANGED <<cmdq, fg_send, live_cameras>>
    /\ UNCHANGED <<frameq, wvars, selected_camera, image_set>>

\* update: `while let Ok(a) = self.from_image_thread.try_recv()`, one frame
\* (the first try_recv of an update, or a later one).  A frame of a camera
\* other than the selected one is answered by CloseCamera(i).
FgDrain ==
    /\ fg_pc \in {"idle", "drain"}
    /\ fg_send = NoCmd
    /\ frameq # <<>>
    /\ frameq' = ChanRest(frameq)
    /\ fg_pc' = "drain"
    /\ LET i == ChanHead(frameq)
       IN IF selected_camera # -1 /\ selected_camera # i
          THEN fg_send' = CloseCamera(i) /\ UNCHANGED image_set
          ELSE image_set' = image_set \cup {i} /\ UNCHANGED fg_send
    /\ UNCHANGED <<cmdq, wvars, det_i, consecutive_fail, live_cameras,
                   selected_camera>>

\* update: try_recv finds the frame channel empty, the loop ends.
FgDrainEnd ==
    /\ fg_pc \in {"idle", "drain"}
    /\ fg_send = NoCmd
    /\ frameq = <<>>
    /\ fg_pc' = "ui"
    /\ UNCHANGED <<cmdq, frameq, wvars, fg_send, det_i, consecutive_fail,
                   live_cameras, selected_camera, image_set>>

\* update: the combo box selects camera i of live_cameras.
FgSelect(i) ==
    /\ fg_pc = "ui"
    /\ fg_send = NoCmd
    /\ i \in live_cameras
    /\ selected_camera' = i
    /\ fg_pc' = "idle"
    /\ UNCHANGED <<cmdq, frameq, wvars, fg_send, det_i, consecutive_fail,
                   live_cameras, image_set>>

\* update: "Open camera" / "Close camera" clicked (main.rs:579-588).
FgClick(op) ==
    /\ fg_pc = "ui"
    /\ fg_send = NoCmd
    /\ IF selected_camera # -1 /\ ~CmdSendReturns
       THEN /\ fg_send' = [op |-> op, id |-> selected_camera]
            /\ UNCHANGED <<cmdq, fg_pc>>
       ELSE /\ cmdq' = IF selected_camera # -1
                       THEN Enqueued([op |-> op, id |-> selected_camera])
                       ELSE cmdq
            /\ fg_pc' = "idle"
            /\ UNCHANGED fg_send
    /\ UNCHANGED <<frameq, wvars, det_i, consecutive_fail, live_cameras,
                   selected_camera, image_set>>

\* update with no input event.
FgNoEvent ==
    /\ fg_pc = "ui"
    /\ fg_send = NoCmd
    /\ fg_pc' = "idle"
    /\ UNCHANGED <<cmdq, frameq, wvars, fg_send, det_i, consecutive_fail,
                   live_cameras, selected_camera, image_set>>

\* eframe calls on_exit: send(Quit); when the send has returned, on_exit
\* returns and MainData is dropped (see FgSend).
FgOnExit ==
    /\ fg_pc = "idle"
    /\ IF CmdSendReturns
       THEN /\ cmdq' = Enqueued(Quit)
            /\ fg_pc' = "exited"
            /\ UNCHANGED fg_send
       ELSE /\ fg_send' = Quit
            /\ fg_pc' = "on_exit"
            /\ UNCHANGED cmdq
    /\ UNCHANGED <<frameq, wvars, det_i, consecutive_fail, live_cameras,
                   selected_camera, image_set>>

\* ------------------------------------------------------------ calibration
\* A frame of the accumulated list, by what the detector makes of it:
\*   det "ok": detect_markers and interpolate_corners_charuco return Ok and
\*             yield `corners` board corners (0: nothing found)
\*   det "detect_err": detect_markers returns Err
\*   det "interp_err": interpolate_corners_charuco returns Err
BoardImage == [det |-> "ok", corners |-> 2]
ImageKinds ==
    {BoardImage, [det |-> "ok", corners |-> 0],
     [det |-> "detect_err", corners |-> 0], [det |-> "interp_err", corners |-> 0]}

\* Option<CalibrationData>: cm and dc are the camera matrix and the
\* distortion vector; 0 is the default (empty) Mat the optimizer was given,
\* r in 1 .. MaxResult a solved one.
NoCd == [some |-> FALSE, cm |-> 0, dc |-> 0]
SomeCd(r) == [some |-> TRUE, cm |-> r, dc |-> r]

\* ./test.bin: absent, or created with the bytes written to it (`written`
\* is FALSE for a file that was created and not written).
NoFile == [exists |-> FALSE, written |-> FALSE, data |-> NoCd]
EmptyFile == [exists |-> TRUE, written |-> FALSE, data |-> NoCd]
FileOf(c) == [exists |-> TRUE, written |-> TRUE, data |-> c]

NoCall ==
    [ret |-> "none", solver |-> "none", nimages |-> 0, groups |-> <<>>,
     used |-> 0, persist |-> "none", solved |-> NoCd]

\* What the library and the file system answer during one calibrate_camera:
\* dict: Dictionary::get is Ok; solver: calibrate_camera_charuco is Ok, with
\* result `result`; into: Mat::size/data_bytes are Ok on the Mat of a failed
\* solve; vec: to_vec_2d is Ok on the corners of a frame with none; encode:
\* bincode is Ok; create, write: File::create, write_all are Ok.
\* An answer that calibrate_camera cannot come to ask for is fixed.
CalibEnvs ==
    {e \in [dict : BOOLEAN, solver : BOOLEAN, result : 1 .. MaxResult,
            into : BOOLEAN, vec : BOOLEAN, encode : BOOLEAN, create : BOOLEAN,
            write : BOOLEAN] :
        /\ e.solver => e.into
        /\ ~e.solver => e.result = 1
        /\ ~e.encode => e.create
        /\ ~e.create => e.write
        /\ ~e.dict => e.solver /\ e.vec /\ e.encode /\ e.write}

\* The corners the `for img` loop collects: those of every frame on which
\* detect_markers returned Ok; a frame on which it returned Err adds none.
RECURSIVE CollectCorners(_)
CollectCorners(imgs) ==
    IF imgs = <<>> THEN 0
    ELSE (IF Head(imgs).det = "ok" THEN Head(imgs).corners ELSE 0)
            + CollectCorners(Tail(imgs))

\* `if self.charuco_images.is_empty() { return Err(()) }`
NoFramesUnchecked(imgs) == FALSE
NoFrames(imgs) == imgs = <<>>

\* The frames of imgs whose corners the `for img` loop collected.
UsedFrames(imgs) == Cardinality({k \in 1 .. Len(imgs) : imgs[k].det = "ok"})

\* MainData::calibrate_camera on the accumulated frames imgs, with the
\* session's result oldcd and the file oldfile: the value returned ("Ok",
\* "Err", or "panic" for a failed unwrap), the session's result and the file
\* afterwards, whether the optimizer ran and failed, the correspondence
\* groups handed to it (the corner count of each group), the number of frames
\* that went into them, the CalibrationData built from the optimizer's Mats,
\* and how storing it went.
CalibrateCamera(imgs, oldcd, oldfile, e) ==
    LET out(ret, c, f, sv, g, ps) ==
            [ret |-> ret, cd |-> c, file |-> f, solver |-> sv, groups |-> g,
             used |-> IF sv = "not_run" THEN 0 ELSE UsedFrames(imgs),
             persist |-> ps,
             solved |-> IF ps = "not_run" THEN NoCd
                        ELSE IF e.solver THEN SomeCd(e.result) ELSE SomeCd(0)]
        groups == <<CollectCorners(imgs)>>
        sv == IF e.solver THEN "ok" ELSE "failed"
        newcd == IF e.solver THEN SomeCd(e.result) ELSE SomeCd(0)
    IN  IF ~e.dict \/ NoFrames(imgs)
        THEN out("Err", oldcd, oldfile, "not_run", <<>>, "not_run")
        ELSE IF \E k \in 1 .. Len(imgs) :
                    /\ imgs[k].det = "interp_err"
                    /\ \A j \in 1 .. (k - 1) :
                          imgs[j].det = "ok" /\ imgs[j].corners = 0 => e.vec
        THEN out("Err", oldcd, oldfile, "not_run", <<>>, "not_run")
        ELSE IF \E k \in 1 .. Len(imgs) :
                    imgs[k].det = "ok" /\ imgs[k].corners = 0 /\ ~e.vec
        THEN out("panic", oldcd, oldfile, "not_run", <<>>, "not_run")
        ELSE IF ~e.solver /\ ~e.into
        THEN out("panic", oldcd, oldfile, sv, groups, "not_run")
        ELSE IF ~e.encode
        THEN out("Ok", newcd, oldfile, sv, groups, "encode_err")
        ELSE IF ~e.create
        THEN out("panic", oldcd, oldfile, sv, groups, "create_err")
        ELSE IF ~e.write
        THEN out("panic", oldcd, EmptyFile, sv, groups, "write_err")
        ELSE out("Ok", newcd, FileOf(newcd), sv, groups, "ok")

fgcap == <<cmdq, frameq, wvars, fg_send, det_i, consecutive_fail, live_cameras,
           selected_camera, image_set, hvars, xvars>>

\* update: "Do calibration" clicked (main.rs:627-631); a panic inside
\* calibrate_camera ends the foreground.
FgCalibrate(e) ==
    /\ fg_pc = "ui"
    /\ fg_send = NoCmd
    /\ IF selected_camera = -1
       THEN /\ fg_pc' = "idle"
            /\ calib_call' = NoCall
            /\ UNCHANGED <<charuco_images, cd, file>>
       ELSE LET r == CalibrateCamera(charuco_images, cd, file, e)
            IN /\ cd' = r.cd
               /\ file' = r.file
               /\ calib_call' = [ret |-> r.ret, solver |-> r.solver,
                                 nimages |-> Len(charuco_images), groups |-> r.groups,
                                 used |-> r.used, persist |-> r.persist,
                                 solved |-> r.solved]
               /\ fg_pc' = IF r.ret = "panic" THEN "panicked" ELSE "idle"
               /\ UNCHANGED charuco_images
    /\ UNCHANGED fgcap

\* `if let Some(i) = &self.selected_camera { if let Some(img) =
\* self.image_set.get(i)`: a camera is selected and a frame of it was received.
HasNewestUnselected(sel, set) == TRUE
HasNewest(sel, set) == sel # -1 /\ sel \in set

\* update: "Save charuco capture from camera" clicked: use_newest_image, and
\* the newest frame of the selected camera is pushed (main.rs:654-658).  The
\* content k of that frame is whatever the camera saw.
FgCapture(k) ==
    /\ fg_pc = "ui"
    /\ fg_send = NoCmd
    /\ fg_pc' = "idle"
    /\ calib_call' = NoCall
    /\ IF HasNewest(selected_camera, image_set) /\ Len(charuco_images) < MaxImages
       THEN charuco_images' = Append(charuco_images, k)
       ELSE UNCHANGED charuco_images
    /\ UNCHANGED <<cd, file>>
    /\ UNCHANGED fgcap

\* update: "Use charuco mat directly" clicked: the rendered board is pushed.
FgUseBoard ==
    /\ fg_pc = "ui"
    /\ fg_send = NoCmd
    /\ Len(charuco_images) < MaxImages
    /\ fg_pc' = "idle"
    /\ calib_call' = NoCall
    /\ charuco_images' = Append(charuco_images, BoardImage)
    /\ UNCHANGED <<cd, file>>
    /\ UNCHANGED fgcap

\* update: "Clear saved images" clicked.
FgClear ==
    /\ fg_pc = "ui"
    /\ fg_send = NoCmd
    /\ fg_pc' = "idle"
    /\ calib_call' = NoCall
    /\ charuco_images' = <<>>
    /\ UNCHANGED <<cd, file>>
    /\ UNCHANGED fgcap

\* --------------------------------------------------------- specification
\* MainData::new: empty channels, the worker at the top of its loop with an
\* empty device table; main then calls detect_cameras.
\* No function is being applied on its own.
NoArg == [fn |-> "none"]

ProgInit ==
    /\ cmdq = <<>>
    /\ frameq = <<>>
    /\ w_pc = "recv"
    /\ w_live_cameras = [i \in Ids |-> "none"]
    /\ w_todo = {}
    /\ w_frame = -1
    /\ w_reads = ZeroReads
    /\ fg_pc = "detect"
    /\ fg_send = NoCmd
    /\ det_i = 0
    /\ consecutive_fail = 0
    /\ live_cameras = {}
    /\ selected_camera = -1
    /\ image_set = {}
    /\ charuco_images = <<>>
    /\ cd = NoCd
    /\ file = NoFile
    /\ calib_call = NoCall
    /\ sent = <<>>
    /\ w_log = <<>>
    /\ scale = [i \in 1 .. ScaleLen |-> 0]
    /\ probes = <<>>
    /\ fn_out = NoArg

Init == ProgInit /\ fn_in = NoArg

\* The whole program in a session in which every read of an open camera
\* delivers a frame, the user walks through the cameras in ascending order
\* and, of the two camera buttons, presses "Open camera" only.  (WorkerSpec
\* below has the failing reads and every order of commands.)
Next ==
    \/ FgSend /\ UNCHANGED <<cvars, hvars, xvars>>
    \/ (\E found \in BOOLEAN : FgProbe(found)) /\ UNCHANGED <<cvars, hvars, xvars>>
    \/ FgDrain /\ UNCHANGED <<cvars, hvars, xvars>>
    \/ FgDrainEnd /\ UNCHANGED <<cvars, hvars, xvars>>
    \/ (\E i \in Ids : i > selected_camera /\ FgSelect(i))
            /\ UNCHANGED <<cvars, hvars, xvars>>
    \/ FgClick("OpenCamera") /\ UNCHANGED <<cvars, hvars, xvars>>
    \/ FgNoEvent /\ UNCHANGED <<cvars, hvars, xvars>>
    \/ FgOnExit /\ UNCHANGED <<cvars, hvars, xvars>>
    \/ (\E ok \in BOOLEAN : WRecv(ok)) /\ UNCHANGED <<cvars, hvars, xvars>>
    \/ WPoll(TRUE) /\ UNCHANGED <<cvars, hvars, xvars>>
    \/ WSend /\ UNCHANGED <<cvars, hvars, xvars>>

Spec == Init /\ [][Next]_vars

\* Scheduling: the worker thread keeps running while it has a step to take,
\* and a foreground send that can return does return.  Nothing obliges the
\* user to produce events.
WorkerStep ==
    ((\E ok \in BOOLEAN : WRecv(ok)) \/ WPoll(TRUE) \/ WSend)
        /\ UNCHANGED <<cvars, hvars, xvars>>
FgSendStep == FgSend /\ UNCHANGED <<cvars, hvars, xvars>>

FairSpec == Spec /\ WF_vars(WorkerStep) /\ WF_vars(FgSendStep)

\* The same, and eframe calls update again and again (update asks for a
\* repaint after 10 ms, main.rs:549): an update that can take a frame or
\* come to its end does.
FgUpdateStep == (FgDrain \/ FgDrainEnd \/ FgNoEvent) /\ UNCHANGED <<cvars, hvars, xvars>>

UpdateFairSpec == FairSpec /\ WF_vars(FgUpdateStep)

\* ------------------------------------------------- the worker by itself
\* The worker behind its two channels, driven by a client that may submit
\* any command (also for ids it never registered) and take frames whenever
\* it likes.  sent and w_log record what was enqueued and what was dequeued.
ClientSend(c) ==
    /\ Len(sent) < MaxCmds
    /\ ~CmdRxDropped
    /\ Len(cmdq) < CmdCap
    /\ cmdq' = ChanPut(cmdq, c)
    /\ sent' = Append(sent, c)
    /\ UNCHANGED <<frameq, wvars, fvars, cvars, w_log, xvars>>

ClientRecv ==
    /\ frameq # <<>>
    /\ frameq' = ChanRest(frameq)
    /\ UNCHANGED <<cmdq, wvars, fvars, cvars, hvars, xvars>>

\* WRecv, with the command it dequeued (if any) written to the log.
WRecvLogged(ok) ==
    /\ WRecv(ok)
    /\ w_log' = IF cmdq = <<>>
                THEN w_log
                ELSE Append(w_log, [cmd |-> ChanHead(cmdq), ok |-> ok])
    /\ UNCHANGED <<cvars, sent, xvars>>

WorkerNext ==
    \/ \E c \in Commands : ClientSend(c)
    \/ ClientRecv
    \/ \E ok \in BOOLEAN : WRecvLogged(ok)
    \/ (\E ok \in BOOLEAN : WPoll(ok)) /\ UNCHANGED <<cvars, hvars, xvars>>
    \/ WSend /\ UNCHANGED <<cvars, hvars, xvars>>

WorkerSpec == Init /\ [][WorkerNext]_vars

\* ------------------------------------------------ the calibration session
\* The foreground with its calibration buttons.  The capture side is reduced
\* to what the session sees of it: a frame of a discovered camera arrives
\* when both channels are empty, and queued commands are taken.  Cameras are
\* attached at indices below CalibCams only.
CamFrame(i) ==
    /\ i \in live_cameras
    /\ fg_pc \in {"idle", "drain", "ui"}
    /\ cmdq = <<>>
    /\ frameq = <<>>
    /\ frameq' = ChanPut(frameq, i)
    /\ UNCHANGED <<cmdq, wvars, fvars, cvars, hvars, xvars>>

CamTake ==
    /\ cmdq # <<>>
    /\ cmdq' = ChanRest(cmdq)
    /\ UNCHANGED <<frameq, wvars, fvars, cvars, hvars, xvars>>

CalibNext ==
    \/ (\E found \in BOOLEAN : (found => det_i < CalibCams) /\ FgProbe(found))
            /\ UNCHANGED <<cvars, hvars, xvars>>
    \/ FgSend /\ UNCHANGED <<cvars, hvars, xvars>>
    \/ FgDrain /\ UNCHANGED <<cvars, hvars, xvars>>
    \/ FgDrainEnd /\ UNCHANGED <<cvars, hvars, xvars>>
    \/ (\E i \in Ids : FgSelect(i)) /\ calib_call' = NoCall
            /\ UNCHANGED <<charuco_images, cd, file, hvars, xvars>>
    \/ \E i \in Ids : CamFrame(i)
    \/ CamTake
    \/ \E k \in ImageKinds : FgCapture(k)
    \/ FgUseBoard
    \/ FgClear
    \/ \E e \in CalibEnvs : FgCalibrate(e)

CalibSpec == Init /\ [][CalibNext]_vars

\* ------------------------------------------------- the saveable matrices
\* An opencv Mat: continuous, `data` its bytes row by row.
ElemSize(typ) == IF typ = CV_64FC1 THEN 8 ELSE 3
MkMat(r, c, t, seed) ==
    [rows |-> r, cols |-> c, typ |-> t,
     data |-> [k \in 1 .. (r * c * ElemSize(t)) |-> (seed + k) % (MaxSeed + 1)]]
Mats ==
    {MkMat(r, c, t, seed) : r \in 1 .. MaxDim, c \in 1 .. MaxDim,
                            t \in {CV_64FC1, CV_8UC3}, seed \in 0 .. MaxSeed}

\* impl From<Mat> for SaveableOpencvMat: size() is (width: cols, height: rows).
FromMat(m) == [width |-> m.cols, height |-> m.rows, typ |-> m.typ, data |-> m.data]

\* impl Into<Mat> for SaveableOpencvMat: a Mat of (width, height), always
\* CV_64FC1 (self.typ is not used), filled by copy_from_slice, which panics
\* when self.data has another length than the new Mat.
IntoMatTransposed(sv) ==
    IF Len(sv.data) # sv.width * sv.height * ElemSize(CV_64FC1)
    THEN [panic |-> TRUE]
    ELSE [panic |-> FALSE, rows |-> sv.width, cols |-> sv.height, typ |-> CV_64FC1,
          data |-> sv.data]
IntoMat(sv) ==
    IF Len(sv.data) # sv.width * sv.height * ElemSize(CV_64FC1)
    THEN [panic |-> TRUE]
    ELSE [panic |-> FALSE, rows |-> sv.height, cols |-> sv.width, typ |-> CV_64FC1,
          data |-> sv.data]

\* bincode (standard configuration) of SaveableOpencvMat: the three i32
\* fields in order, then the Vec<u8> with its length in front.  The encoding
\* is modelled at the level of these items, not of the bytes of a varint.
EncodeMat(sv) == <<sv.width, sv.height, sv.typ, Len(sv.data)>> \o sv.data
DecodeMat(b) ==
    [val |-> [width |-> b[1], height |-> b[2], typ |-> b[3],
              data |-> SubSeq(b, 5, 4 + b[4])],
     rest |-> SubSeq(b, 5 + b[4], Len(b))]

\* CalibrationData::OpenCvCharuco([cm, dc]): the variant index, then the two
\* elements of the array one after the other.
EncodeCd(pair) == <<0>> \o EncodeMat(pair[1]) \o EncodeMat(pair[2])
DecodeCd(b) ==
    LET first == DecodeMat(Tail(b))
        second == DecodeMat(first.rest)
    IN <<first.val, second.val>>

\* The way of a solved pair of Mats to the file and back: into() of
\* calibrate_camera, encode, decode, into() of apply_calibration.
RestoreCd(cm, dc) ==
    LET back == DecodeCd(EncodeCd(<<FromMat(cm), FromMat(dc)>>))
    IN <<IntoMat(back[1]), IntoMat(back[2])>>

\* What opencv answers during one apply_calibration: undistort is Ok (and
\* fills oimg); data_bytes is Ok on the oimg an undistort left untouched.
ApplyEnvs == {e \in [undistort : BOOLEAN, bytes : BOOLEAN] : e.undistort => e.bytes}

\* <[SaveableOpencvMat; 2]>::apply_calibration on a frame of w x h pixels:
\* the size of the ColorImage returned, or a panic.  oimg is the default
\* (0 x 0) Mat unless undistort filled it with a frame of the input's size.
ApplyCalibration(w, h, pair, e) ==
    IF IntoMat(pair[1]).panic \/ IntoMat(pair[2]).panic THEN [ret |-> "panic", w |-> 0, h |-> 0]
    ELSE IF e.undistort THEN [ret |-> "ok", w |-> w, h |-> h]
    ELSE IF ~e.bytes THEN [ret |-> "panic", w |-> 0, h |-> 0]
    ELSE [ret |-> "ok", w |-> 0, h |-> 0]

\* The pair of Mats is saved and restored.
FnRestore ==
    /\ fn_in.fn = "cd"
    /\ fn_out' = [fn |-> "restore", val |-> RestoreCd(fn_in.cm, fn_in.dc)]
    /\ UNCHANGED <<cmdq, frameq, wvars, fvars, cvars, hvars, scale, probes, fn_in>>

\* The saved pair is applied to a frame of w x h pixels.
FnApply(w, h, e) ==
    /\ fn_in.fn = "cd"
    /\ fn_out' = [fn |-> "apply", img |-> [w |-> w, h |-> h],
                  val |-> ApplyCalibration(w, h, <<FromMat(fn_in.cm), FromMat(fn_in.dc)>>, e)]
    /\ UNCHANGED <<cmdq, frameq, wvars, fvars, cvars, hvars, scale, probes, fn_in>>

MatInit == ProgInit /\ fn_in \in [fn : {"cd"}, cm : Mats, dc : Mats]

MatNext ==
    \/ FnRestore
    \/ \E w \in 1 .. MaxDim, h \in 1 .. MaxDim, e \in ApplyEnvs : FnApply(w, h, e)

MatSpec == MatInit /\ [][MatNext]_vars

\* ------------------------------------------------------- the profile plot
\* Positions and times on the plot's x axis are counted in half steps
\* between two control points: control point i (from 0) is at 2 * i, the
\* last one at Top.  Control values are even integers, so that the value
\* half way between two of them is an integer too.
Top == 2 * (ScaleLen - 1)
Vals == {-2, 0, 2}
NearEnds == ((0 - Margin) .. Margin) \cup ((Top - Margin) .. (Top + Margin))
DragXs == NearEnds \cup {ScaleLen}
SampleTimes == NearEnds \cup {ScaleLen, ScaleLen + 1}

\* f64::round of h / 2: to the nearest integer, a half away from zero.
Round(h) == IF h >= 0 THEN (h + 1) \div 2 ELSE 0 - ((1 - h) \div 2)

\* `b >= 0.0 && b < self.scale.len() as f64`
InRangeNoLower(b, n) == b < n
InRange(b, n) == b >= 0 /\ b < n

\* `b as usize`: a negative float becomes 0.
AsUsize(b) == IF b < 0 THEN 0 ELSE b

\* update: the plot is dragged with the primary button at x position hx, the
\* pointer moved on to height y (main.rs:758-768).
FgDrag(hx, y) ==
    /\ LET b == Round(hx)
       IN /\ scale' = IF InRange(b, Len(scale))
                      THEN [scale EXCEPT ![AsUsize(b) + 1] = y]
                      ELSE scale
          /\ fn_out' = [fn |-> "drag", b |-> b, y |-> y]
    /\ UNCHANGED <<cmdq, frameq, wvars, fvars, cvars, hvars, probes, fn_in>>

Nothing == [some |-> FALSE, v |-> 0]
Some(v) == [some |-> TRUE, v |-> v]

\* splines::Spline::sample on the keys (i / s, scale[i], Cosine) at time t:
\* None outside [first key, last key) and with fewer than two keys; the
\* cosine interpolation is the lower key's value at the key and the mean of
\* the two values half way to the next key.
Sample(sc, t) ==
    IF Len(sc) < 2 \/ t < 0 \/ t >= 2 * (Len(sc) - 1) THEN Nothing
    ELSE LET i == (t \div 2) + 1
         IN IF t % 2 = 0 THEN Some(sc[i]) ELSE Some((sc[i] + sc[i + 1]) \div 2)

\* splines::Spline::clamped_sample: None without keys; else sample, and
\* where that is None the first key's value up to the first key and the
\* last key's value from the last key on.
UnclampedSample(sc, t) == Sample(sc, t)
ClampedSample(sc, t) ==
    IF Len(sc) = 0 THEN Nothing
    ELSE IF Sample(sc, t).some THEN Sample(sc, t)
    ELSE IF t <= 0 THEN Some(sc[1])
    ELSE IF t >= 2 * (Len(sc) - 1) THEN Some(sc[Len(sc)])
    ELSE Nothing

\* The profile is sampled at time t (update samples it at 340 times of
\* [0, 1] for the plot, main.rs:720-726).
FnSample(t) ==
    /\ fn_in = NoArg
    /\ fn_out' = [fn |-> "sample", t |-> t, val |-> ClampedSample(scale, t)]
    /\ UNCHANGED <<cmdq, frameq, wvars, fvars, cvars, hvars, scale, probes, fn_in>>

\* ---- the interactive radial remap.  The program shows corrected_img
\* (main.rs:698-705) and nothing in main.rs computes it; the remap is the
\* one its description gives: a forward warp that moves each source pixel
\* away from the image centre by the factor 1 + sample(r).
\* Coordinates are doubled, so that the centre (w / 2, h / 2) is (w, h).
Unset == 0 - 1
HoleMarker == 0 - 2
FrameDims == 1 .. (MaxDim + 1)

\* A frame of w x h pixels, row by row; every pixel has a colour of its own.
MkFrame(w, h, seed) == [w |-> w, h |-> h, px |-> [k \in 1 .. (w * h) |-> k + seed]]

\* r = sqrt(dx^2 + dy^2) / cornerDistance as a time of the profile,
\* rounded down to a half step: the greatest t with t / Top <= r.
RadiusTime(w, h, x, y) ==
    LET d2 == (2 * x - w) * (2 * x - w) + (2 * y - h) * (2 * y - h)
        c2 == w * w + h * h
    IN CHOOSE t \in 0 .. Top :
          /\ t * t * c2 <= Top * Top * d2
          /\ t = Top \/ (t + 1) * (t + 1) * c2 > Top * Top * d2

\* c = 1 + profile.sample(r)
FactorNoUnit(sc, t) == ClampedSample(sc, t).v
Factor(sc, t) == 1 + ClampedSample(sc, t).v

\* (center + dx * c, center + dy * c), rounded to the nearest integer.
DestOf(w, h, x, y, sc) ==
    LET c == Factor(sc, RadiusTime(w, h, x, y))
    IN [x |-> Round(w + (2 * x - w) * c), y |-> Round(h + (2 * y - h) * c)]

\* The destination buffer starts as Unset; the source pixels are scattered
\* in row order, a later one over an earlier one, one whose destination is
\* outside the frame to no place; what is still Unset becomes HoleMarker.
RadialCorrect(f, sc) ==
    LET n == f.w * f.h
        X(k) == (k - 1) % f.w
        Y(k) == (k - 1) \div f.w
        dest == [j \in 1 .. n |-> DestOf(f.w, f.h, X(j), Y(j), sc)]
        writers(k) == {j \in 1 .. n : dest[j] = [x |-> X(k), y |-> Y(k)]}
        last(k) == CHOOSE j \in writers(k) : \A i \in writers(k) : i <= j
        buf == [k \in 1 .. n |-> IF writers(k) = {} THEN Unset ELSE f.px[last(k)]]
    IN [w |-> f.w, h |-> f.h,
        px |-> [k \in 1 .. n |-> IF buf[k] = Unset THEN HoleMarker ELSE buf[k]]]

ProfileNext ==
    \/ \E hx \in DragXs, y \in Vals : FgDrag(hx, y)
    \/ \E t \in SampleTimes : FnSample(t)

ProfileSpec == Init /\ [][ProfileNext]_vars

\* The frame fn_in.img is corrected with the profile as it is.
FnCorrect ==
    /\ fn_in.fn = "frame"
    /\ fn_out' = [fn |-> "correct", img |-> fn_in.img,
                  val |-> RadialCorrect(fn_in.img, scale)]
    /\ UNCHANGED <<cmdq, frameq, wvars, fvars, cvars, hvars, scale, probes, fn_in>>

\* The remap of one frame, between edits of the first, the middle and the
\* last control point of the profile.
RemapDragXs == {0, ScaleLen, Top}

RemapInit ==
    /\ ProgInit
    /\ fn_in \in {[fn |-> "frame", img |-> MkFrame(w, h, seed)] :
                     w \in FrameDims, h \in FrameDims, seed \in 0 .. MaxSeed}

RemapNext ==
    \/ \E hx \in RemapDragXs, y \in Vals : FgDrag(hx, y)
    \/ FnCorrect

RemapSpec == RemapInit /\ [][RemapNext]_vars

\* ------------------------------------------------------ device discovery
\* detect_cameras (main.rs:276-292), called once before the event loop
\* starts (main.rs:784), with the worker running beside it.  probes records
\* the result of the probe of each index, sent the commands enqueued, w_log
\* what the worker dequeued.  No device is open during discovery: the
\* worker's `for` loop reads nothing and sends nothing.
FgProbeLogged(found) ==
    /\ FgProbe(found)
    /\ probes' = Append(probes, found)
    /\ sent' = IF cmdq' # cmdq THEN Append(sent, ValidCamera(det_i)) ELSE sent
    /\ UNCHANGED <<cvars, w_log, scale, fn_in, fn_out>>

DetectNext ==
    \/ \E found \in BOOLEAN : FgProbeLogged(found)
    \/ \E ok \in BOOLEAN : WRecvLogged(ok)

DetectSpec == Init /\ [][DetectNext]_vars

\* ================================================================ claims
\* The foreground is inside to_image_thread.send and cannot return: the
\* command channel is full and the worker has not taken a command.
FgBlocked == fg_send # NoCmd /\ ~CmdSendReturns

\* The worker is inside snd.send and cannot return: the frame channel is
\* full and its receiver is still there.
WBlocked == w_pc = "send" /\ Len(frameq) = FrameCap /\ ~FrameRxDropped

\* C1: submitting a command never blocks the foreground, also when the
\* command channel already holds CmdCap undelivered commands.
\* (The code uses the blocking Sender::send: violated.)
C1_EnqueueNeverBlocks == ~FgBlocked

\* C2: the worker is never stalled by a full frame channel: it drops the
\* frame and goes on instead of waiting for the foreground.
\* (The code uses the blocking Sender::send: violated.)
C2_WorkerNeverStalled == ~WBlocked

\* on_exit has called send(Quit) (and may still be inside it).
QuitIssued == fg_pc \in {"on_exit", "exited"}

\* C3: once the foreground has issued Quit at exit, the worker eventually
\* terminates, whatever the two channels and the open devices are like at
\* that moment.
\* (With three cameras open the worker can be inside snd.send on a full frame
\* channel while on_exit is inside send(Quit) on a full command channel:
\* neither returns.  Violated.)
C3_QuitLeadsToWorkerDone == QuitIssued ~> (w_pc = "done")

\* C4: the foreground's exit step happens only after the worker terminated.
\* (The JoinHandle is never joined: violated.)
C4_ExitAfterWorkerDone == fg_pc = "exited" => w_pc = "done"

\* ---- C5
NeverRegistered(i) == \A k \in 1 .. Len(sent) : sent[k] # ValidCamera(i)

\* The step dequeues OpenCamera(i) or CloseCamera(i) for a never registered i.
DequeuesForUnregistered ==
    /\ w_pc = "recv"
    /\ cmdq # <<>>
    /\ cmdq' = Tail(cmdq)
    /\ Head(cmdq).op \in {"OpenCamera", "CloseCamera"}
    /\ NeverRegistered(Head(cmdq).id)

\* C5: for a device id never registered with the worker, OpenCamera(id) and
\* CloseCamera(id) leave the device table unchanged and do not stop the
\* worker, the id is never in the table and no frame tagged with it is ever
\* on the frame channel (or about to be sent).
C5_UnregisteredIgnored ==
    /\ [](\A i \in Ids : NeverRegistered(i) =>
            /\ w_live_cameras[i] = "none"
            /\ w_frame # i
            /\ \A k \in 1 .. Len(frameq) : frameq[k] # i)
    /\ [][DequeuesForUnregistered =>
            /\ w_live_cameras' = w_live_cameras
            /\ w_pc' \in {"recv", "poll"}]_vars

\* The worker has just taken OpenCamera(i) for a never registered i while
\* another device is delivering frames.
C5_Witness ==
    /\ w_log # <<>>
    /\ w_log[Len(w_log)].cmd.op = "OpenCamera"
    /\ w_log[Len(w_log)].ok
    /\ NeverRegistered(w_log[Len(w_log)].cmd.id)
    /\ frameq # <<>>
    /\ w_pc = "poll"

\* ---- C6
\* Every device that is open and already passed by this iteration's `for`
\* loop was read exactly once, no other device was read at all.
ReadOncePerIteration ==
    \A i \in Ids :
        w_reads[i] = IF w_live_cameras[i] = "open" /\ i \notin w_todo /\ w_pc # "done"
                     THEN 1 ELSE 0

\* C6: an iteration dequeues at most one command and then reads every open
\* device exactly once: commands leave the channel one at a time, only at
\* the top of the loop (where the previous iteration has read every open
\* device once, w_todo being empty), also with more commands queued.
C6_OneCommandThenPollAll ==
    /\ [](w_pc = "recv" => w_todo = {})
    /\ []ReadOncePerIteration
    /\ [][Len(cmdq') < Len(cmdq) =>
            /\ Len(cmdq') = Len(cmdq) - 1
            /\ w_pc = "recv"
            /\ w_reads' = ZeroReads]_vars

\* An iteration has ended with device 0 open and read once, and two commands
\* are still queued.
C6_Witness ==
    /\ w_pc = "recv"
    /\ Len(cmdq) = 2
    /\ Len(w_log) = 2
    /\ w_live_cameras[0] = "open"
    /\ w_reads[0] = 1

\* ---- C7
RECURSIVE RefTable(_)
\* The device table after the logged commands, applied one after the other:
\* ValidCamera registers (closed), OpenCamera opens a registered device if
\* the open succeeds (an open one stays open), CloseCamera closes a
\* registered device, anything else is ignored.
RefTable(log) ==
    IF log = <<>>
    THEN [i \in Ids |-> "none"]
    ELSE LET t == RefTable(SubSeq(log, 1, Len(log) - 1))
             e == log[Len(log)]
             i == e.cmd.id
         IN IF e.cmd.op = "ValidCamera" THEN [t EXCEPT ![i] = "closed"]
            ELSE IF e.cmd.op = "OpenCamera" /\ t[i] = "closed" /\ e.ok
            THEN [t EXCEPT ![i] = "open"]
            ELSE IF e.cmd.op = "CloseCamera" /\ t[i] = "open"
            THEN [t EXCEPT ![i] = "closed"]
            ELSE t

LogCmds == [k \in 1 .. Len(w_log) |-> w_log[k].cmd]

\* C7: the worker applies the commands in the order they were enqueued:
\* what it has dequeued so far is the first k commands enqueued, the channel
\* holds the rest in order (none lost, duplicated or reordered), and the
\* device table is the result of applying those k commands in sequence.
C7_CommandsInOrder ==
    /\ LogCmds \o cmdq = sent
    /\ w_live_cameras = RefTable(w_log)

\* Three commands processed, a device open, another command still queued.
C7_Witness ==
    /\ Len(w_log) = 3
    /\ cmdq # <<>>
    /\ \E i \in Ids : w_live_cameras[i] = "open"

\* ---- C8
\* The step reads device i and gets no frame: a read was counted and no
\* frame was enqueued or is waiting to be.
ReadFails(i) ==
    /\ w_reads'[i] = w_reads[i] + 1
    /\ frameq' = frameq
    /\ w_pc' # "send"
    /\ ~FrameRxDropped

\* C8: a failed read emits nothing, leaves the device registered and open,
\* goes on with the remaining open devices of the iteration (all of which
\* are read before the iteration ends) and never halts the worker.
C8_ReadFailureSkipped ==
    /\ [][\A i \in Ids : ReadFails(i) =>
            /\ w_live_cameras' = w_live_cameras
            /\ w_live_cameras'[i] = "open"
            /\ w_todo' = w_todo \ {i}
            /\ w_pc' = IF w_todo' = {} THEN "recv" ELSE "poll"]_vars
    /\ [](w_pc = "recv" => \A i \in Ids : w_live_cameras[i] = "open" => w_reads[i] = 1)

\* Device 0 was read in this iteration and gave no frame (device 1 has one
\* queued from the iteration before), it is still open, and device 1 is still
\* to be read.
C8_Witness ==
    /\ w_pc = "poll"
    /\ w_reads[0] = 1
    /\ w_live_cameras[0] = "open"
    /\ w_todo = {1}
    /\ frameq = <<1>>
    /\ Len(w_log) = 4
    /\ cmdq = <<>>

\* ---- C9
\* The step is a call of calibrate_camera from update.
CalibrateStep ==
    /\ fg_pc = "ui"
    /\ fg_pc' \in {"idle", "panicked"}
    /\ calib_call' # NoCall

\* C9: calibrate_camera on an empty list of frames returns Err without
\* running the optimizer, and leaves the session's result and the file as
\* they were.
C9_EmptySolveFails ==
    [][CalibrateStep /\ charuco_images = <<>> =>
            /\ calib_call'.ret = "Err"
            /\ calib_call'.solver = "not_run"
            /\ cd' = cd
            /\ file' = file]_vars

\* A solve on the empty list has just returned Err in a session that holds
\* a solved result and a written file from before.
C9_Witness ==
    /\ calib_call.ret = "Err"
    /\ calib_call.nimages = 0
    /\ charuco_images = <<>>
    /\ cd.some /\ cd.cm > 0
    /\ file = FileOf(cd)

\* ---- C10
\* C10: when the optimizer reports failure, calibrate_camera does not return
\* Ok (the failure is surfaced as an error).
\* (The Result of calibrate_camera_charuco is printed and dropped, and
\* calibrate_camera goes on to store the Mats and return Ok(()): violated.)
C10_SolverFailureNotOk ==
    calib_call.solver = "failed" /\ calib_call.nimages > 0 => calib_call.ret # "Ok"

\* ---- C11
PersistFailed == calib_call.persist \in {"encode_err", "create_err", "write_err"}

\* C11: when storing the solved calibration fails (encoding, creating or
\* writing the file), calibrate_camera still returns and the session holds
\* the newly solved result.
\* (File::create and write_all are unwrapped: their failure panics before
\* `self.cd = Some(cd)` is reached.  Violated.)
C11_PersistFailureKeepsResult ==
    PersistFailed => calib_call.ret # "panic" /\ cd = calib_call.solved

\* ---- C12
\* C12: a solve that returns Ok has used every accumulated frame.
\* (A frame on which detect_markers returns Err is passed over and the solve
\* goes on without it.  Violated.)
C12_NoFrameDropped == calib_call.ret = "Ok" => calib_call.used = calib_call.nimages

\* ---- C13
\* C13: every frame of the accumulated list has board corners (a frame with
\* none is never accumulated).
\* (Neither button looks at the frame before pushing it.  Violated.)
C13_NoEmptyFrameAccumulated ==
    \A k \in 1 .. Len(charuco_images) :
        charuco_images[k].det = "ok" /\ charuco_images[k].corners > 0

\* ---- C14
\* The Mats the optimizer returns are CV_64FC1.
SolvedPair == fn_in.fn = "cd" /\ fn_in.cm.typ = CV_64FC1 /\ fn_in.dc.typ = CV_64FC1

\* C14: apply_calibration (of a solved calibration) returns a frame of the
\* width and height of its input, also when undistort reports failure.
\* (The Result of undistort is printed and dropped; after a failure oimg is
\* still the default Mat and the frame returned is built from it.  Violated.)
C14_ApplyKeepsSize ==
    fn_out.fn = "apply" /\ SolvedPair =>
        /\ fn_out.val.ret = "ok"
        /\ fn_out.val.w = fn_out.img.w
        /\ fn_out.val.h = fn_out.img.h

\* ---- C15
\* C15: a solved camera matrix and distortion vector, saved, encoded,
\* decoded and converted back, are the Mats they were: same rows and
\* columns, same element type, same bytes.
C15_SavedMatsRoundTrip ==
    fn_out.fn = "restore" /\ SolvedPair =>
        /\ ~fn_out.val[1].panic /\ ~fn_out.val[2].panic
        /\ \A k \in {1, 2} :
              LET m == IF k = 1 THEN fn_in.cm ELSE fn_in.dc
              IN /\ fn_out.val[k].rows = m.rows
                 /\ fn_out.val[k].cols = m.cols
                 /\ fn_out.val[k].typ = m.typ
                 /\ fn_out.val[k].data = m.data

\* A square camera matrix and a distortion vector of one row and two
\* columns, filled differently, have been saved and restored.
C15_Witness ==
    /\ fn_out.fn = "restore"
    /\ SolvedPair
    /\ fn_in.cm.rows = 2 /\ fn_in.cm.cols = 2
    /\ fn_in.dc.rows = 1 /\ fn_in.dc.cols = 2
    /\ fn_in.cm.data # fn_in.dc.data
    /\ fn_out.val[2].data[1] # fn_out.val[2].data[2]

\* ---- C16
\* C16: a drag whose computed index is outside 0 .. len - 1 leaves the
\* profile as it is; one whose index is inside replaces the value of that
\* control point and no other; the profile keeps its length of ScaleLen.
C16_EditValidated ==
    /\ [](Len(scale) = ScaleLen)
    /\ [][fn_out'.fn = "drag" =>
            IF fn_out'.b \in 0 .. (ScaleLen - 1)
            THEN /\ scale'[fn_out'.b + 1] = fn_out'.y
                 /\ \A i \in 1 .. ScaleLen : i # fn_out'.b + 1 => scale'[i] = scale[i]
            ELSE scale' = scale]_vars

\* The last control point has just been set, two others were set before.
C16_Witness ==
    /\ fn_out.fn = "drag"
    /\ fn_out.b = ScaleLen - 1
    /\ scale[ScaleLen] = 2
    /\ scale[1] = -2
    /\ scale[ScaleLen - 1] = -2

\* ---- C17
\* C17: whatever edits the profile has seen, sampling it never fails, and
\* at a time before the first control point (after the last) the sample is
\* the value of the first (last) control point.
C17_SampleClamped ==
    fn_out.fn = "sample" =>
        /\ fn_out.val.some
        /\ fn_out.t < 0 => fn_out.val.v = scale[1]
        /\ fn_out.t > Top => fn_out.val.v = scale[ScaleLen]

\* A sample beyond the last control point, whose value differs from the one
\* before it (a continued slope would give another value).
C17_Witness ==
    /\ fn_out.fn = "sample"
    /\ fn_out.t = Top + 2
    /\ scale[ScaleLen] = 2
    /\ scale[ScaleLen - 1] = -2
    /\ fn_out.val = Some(2)

\* ---- C18
Max(S) == CHOOSE x \in S : \A y \in S : x >= y

\* The probes that failed at the end of the probes made so far.
TrailingFails ==
    LET n == Len(probes)
        good == {k \in 1 .. n : probes[k]}
    IN IF good = {} THEN n ELSE n - Max(good)

\* Probes k - 4 .. k all failed.
FiveFailsAt(k) ==
    k >= MaxConsecutiveFail /\ \A j \in (k - MaxConsecutiveFail + 1) .. k : ~probes[j]

\* How many times ValidCamera(i) was enqueued.
Registrations(i) == Cardinality({k \in 1 .. Len(sent) : sent[k] = ValidCamera(i)})

\* C18: the k-th probe is of index k - 1; discovery goes on while the last
\* five probes have not all failed and is over once they have (a success
\* sets the count of failures back to zero); an index whose probe succeeded
\* is registered once and is in the foreground's set of cameras, one whose
\* probe failed is neither; the worker holds a registered device closed, and
\* holds every registered device once it has taken all commands.
C18_Discovery ==
    /\ Len(probes) = IF fg_pc = "detect" /\ fg_send = NoCmd THEN det_i ELSE det_i + 1
    /\ consecutive_fail = TrailingFails
    /\ \A k \in 1 .. Len(probes) : FiveFailsAt(k) => k = Len(probes) /\ fg_pc # "detect"
    /\ fg_pc # "detect" => FiveFailsAt(Len(probes))
    /\ \A k \in 1 .. Len(sent) : sent[k].op = "ValidCamera"
    /\ \A k \in 1 .. Len(probes) :
          LET i == k - 1
              done == probes[k] /\ fg_send # ValidCamera(i)
          IN /\ Registrations(i) = IF done THEN 1 ELSE 0
             /\ i \in live_cameras <=> done
    /\ live_cameras \subseteq 0 .. (Len(probes) - 1)
    /\ \A i \in Ids :
          /\ w_live_cameras[i] \in {"none", "closed"}
          /\ w_live_cameras[i] = "closed" => Registrations(i) = 1
          /\ Registrations(i) = 1 /\ cmdq = <<>> => w_live_cameras[i] = "closed"

\* Discovery is over after a camera at index 1 between two indices without
\* one; the worker has registered it.
C18_Witness ==
    /\ fg_pc = "idle"
    /\ probes = <<FALSE, TRUE, FALSE, FALSE, FALSE, FALSE, FALSE>>
    /\ live_cameras = {1}
    /\ w_live_cameras[1] = "closed"

\* ---- C19
ZeroProfile == \A i \in 1 .. Len(scale) : scale[i] = 0

\* C19: corrected with a profile whose values are all zero, a frame comes
\* back with its dimensions and with every pixel as it was: none is Unset
\* and none is HoleMarker.
C19_ZeroProfileIdentity ==
    fn_out.fn = "correct" /\ ZeroProfile =>
        /\ fn_out.val = fn_out.img
        /\ \A k \in 1 .. Len(fn_out.val.px) : fn_out.val.px[k] \notin {Unset, HoleMarker}

\* A frame that is not square, corrected with the profile at all zero.
C19_Witness ==
    /\ fn_out.fn = "correct"
    /\ ZeroProfile
    /\ fn_out.img.w = 3 /\ fn_out.img.h = 2
    /\ fn_out.val.px = <<1, 2, 3, 4, 5, 6>>

\* ---- C20
\* The step puts a frame on the frame channel.
Emits == Len(frameq') > Len(frameq)

\* The worker has taken a ValidCamera(i), later an OpenCamera(i) whose open
\* succeeded, and after that no ValidCamera(i) and no CloseCamera(i).
OpenedSince(log, i) ==
    \E r \in 1 .. Len(log), k \in 1 .. Len(log) :
        /\ r < k
        /\ log[r].cmd = ValidCamera(i)
        /\ log[k].cmd = OpenCamera(i) /\ log[k].ok
        /\ \A j \in (k + 1) .. Len(log) : log[j].cmd \notin {ValidCamera(i), CloseCamera(i)}

\* C20: a frame put on the frame channel has the id of a device that the
\* worker holds open at that moment: one it registered and then opened with
\* success, with no registration and no close of it since.
C20_FramesOnlyFromOpen ==
    [][Emits =>
         LET i == frameq'[Len(frameq')]
         IN /\ w_live_cameras[i] = "open"
            /\ w_live_cameras'[i] = "open"
            /\ OpenedSince(w_log, i)]_vars

\* A frame of device 0 is on the channel; the device was closed before its
\* only successful open, so the frame was read after that open.
C20_Witness ==
    /\ frameq = <<0>>
    /\ LogCmds = <<ValidCamera(0), OpenCamera(0), CloseCamera(0), OpenCamera(0)>>
    /\ ~w_log[2].ok
    /\ w_log[4].ok

\* ---- C21
\* The optimizer was called by the calibrate_camera of this update.
OptimizerCalled == calib_call.solver \in {"ok", "failed"}

\* C21: the optimizer is handed one correspondence group for each
\* accumulated frame: as many groups as frames, so that the corners of two
\* frames are never in one group.
C21_GroupPerFrame ==
    OptimizerCalled => Len(calib_call.groups) = calib_call.nimages

\* ---- C22
\* The step is one of the foreground in update, at its buttons, and neither
\* a solve nor a step of the capture side.
ButtonStep ==
    /\ fg_pc = "ui" /\ fg_pc' = "idle"
    /\ calib_call' = NoCall
    /\ cmdq' = cmdq /\ frameq' = frameq /\ image_set' = image_set

\* C22: the list of accumulated frames changes in three ways only: one
\* frame is appended behind the frames it holds, which stay as they are and
\* in their order, or the list is emptied; and only a step of the foreground
\* at its buttons does either: a solve, the reception of a frame and the
\* steps of the capture side leave the list as it is.  A frame from a camera
\* (anything but the rendered board) is appended only when a camera is
\* selected and a frame of it has been received.
C22_ListOwnedByForeground ==
    [][/\ \/ charuco_images' = charuco_images
          \/ charuco_images' = <<>>
          \/ /\ Len(charuco_images') = Len(charuco_images) + 1
             /\ SubSeq(charuco_images', 1, Len(charuco_images)) = charuco_images
       /\ charuco_images' # charuco_images => ButtonStep
       /\ CalibrateStep => charuco_images' = charuco_images
       /\ /\ Len(charuco_images') > Len(charuco_images)
          /\ charuco_images'[Len(charuco_images')] # BoardImage
          => selected_camera # -1 /\ selected_camera \in image_set]_vars

\* Two frames captured from a camera, neither of them the rendered board, in
\* a session that holds a solved result.
C22_Witness ==
    /\ Len(charuco_images) = 2
    /\ charuco_images[1].det = "detect_err"
    /\ charuco_images[2].det = "ok" /\ charuco_images[2].corners = 0
    /\ cd.some

\* ---- C23
\* C23: the foreground is never waiting in a send on the full command
\* channel while the worker is waiting in a send on the full frame channel
\* (each would be waiting for the other to receive).
C23_NoMutualBlock == ~(FgBlocked /\ WBlocked)

\* ---- C24
\* C24: a frame of a camera i other than the selected one has reached the
\* foreground, which answers it with CloseCamera(i): the worker eventually
\* holds device i closed, unless the window is closed before.  (In this
\* session the selection never goes back to i and "Open camera" is for the
\* selected camera only, so no OpenCamera(i) is issued after that.)
C24_UnselectedEventuallyClosed ==
    \A i \in Ids :
        (fg_send = CloseCamera(i)) ~> (w_live_cameras[i] = "closed" \/ QuitIssued)

\* ---- C25
\* The step dequeues OpenCamera(i) or CloseCamera(i) for a registered i.
DequeuesOpenClose ==
    /\ w_pc = "recv"
    /\ cmdq # <<>>
    /\ cmdq' = Tail(cmdq)
    /\ Head(cmdq).op \in {"OpenCamera", "CloseCamera"}
    /\ w_live_cameras[Head(cmdq).id] # "none"

\* The command dequeued is the one the worker processed just before (the
\* device table does not change between two commands).
SameAsLast == w_log # <<>> /\ w_log[Len(w_log)].cmd = Head(cmdq)

\* C25 as stated: processing the same OpenCamera(i) or CloseCamera(i) twice
\* in a row leaves the device table as after processing it once.
\* (An OpenCamera(i) after an OpenCamera(i) whose open failed tries again,
\* and opens the device when the open succeeds: violated.)
C25_TwiceAsOnce ==
    [][DequeuesOpenClose /\ SameAsLast => w_live_cameras' = w_live_cameras]_vars

\* C25, amended: OpenCamera(i) on an open device and CloseCamera(i) on a
\* closed one leave the device table as it is, whatever a second open would
\* have answered; so the same command twice in a row is as once for
\* CloseCamera, and for OpenCamera when the first left the device open.
C25_IdempotentWhenInState ==
    [][DequeuesOpenClose =>
         LET c == Head(cmdq)
         IN /\ c.op = "OpenCamera" /\ w_live_cameras[c.id] = "open"
                  => w_live_cameras' = w_live_cameras
            /\ c.op = "CloseCamera" /\ w_live_cameras[c.id] = "closed"
                  => w_live_cameras' = w_live_cameras
            /\ SameAsLast /\ (c.op = "CloseCamera" \/ w_live_cameras[c.id] = "open")
                  => w_live_cameras' = w_live_cameras]_vars

\* A second OpenCamera(0) was processed on the open device 0 at a moment
\* when an open would have failed, and the device went on delivering
\* frames; a CloseCamera(0) has closed it since.
C25_Witness ==
    /\ Len(w_log) = 4
    /\ w_log[1].cmd = ValidCamera(0)
    /\ w_log[2].cmd = OpenCamera(0) /\ w_log[2].ok
    /\ w_log[3].cmd = OpenCamera(0) /\ ~w_log[3].ok
    /\ w_log[4].cmd = CloseCamera(0)
    /\ cmdq = <<>>
    /\ w_live_cameras[0] = "closed"
    /\ frameq # <<>>

====
